---- MODULE Spec2Model ----
(***************************************************************************)
(* StateCacheStorage (src/classes/state/state-cache-storage.ts): save and  *)
(* restore of one serialized state string through the Actions cache, with  *)
(* a scratch file as the transfer buffer.                                  *)
(*                                                                         *)
(* Every process (a workflow run) has its own scratch file; all processes  *)
(* share the remote cache.  A call is split at its awaits: the backend     *)
(* calls are the only points where another process can interleave, the     *)
(* synchronous code after an await belongs to the step of that await.      *)
(* The outcome of every backend and filesystem call is an input of the     *)
(* step that makes it.  fs.unlinkSync is taken to fail only when the file  *)
(* is absent (the case unlinkSafely is written for).                       *)
(***************************************************************************)
EXTENDS Integers, Sequences, FiniteSets, TLC

\* ------------------------------------------------------------------ bounds
MaxLen == 2          \* longest serialized state
MaxEntries == 2      \* most entries the backend holds under one key

\* --------------------------------------------------------------- constants
CACHE_KEY == <<"_", "s", "t", "a", "t", "e">>
statePrefix == <<"p">>
Alphabet == {"a"}
Procs == {1, 2}

\* Strings of at most n characters.
StringsUpTo(n) == UNION {[1..k -> Alphabet] : k \in 0..n}
Blobs == StringsUpTo(MaxLen)
NonEmptyBlobs == Blobs \ {<<>>}

\* `${this.statePrefix}${CACHE_KEY}`
cache_key == statePrefix \o CACHE_KEY
\* Keys of other users of the same repository cache: one extends cache_key,
\* one does not start with it.
LongerKey == cache_key \o <<"2">>
ForeignKey == <<"q">> \o CACHE_KEY
Keys == {cache_key, LongerKey, ForeignKey}
OtherBlob == <<"a">>

VARIABLES
    remote,       \* the backend: key -> its entries, oldest first
    file,         \* per process: the scratch file (exists, data)
    pc,           \* per process: position in the running call
    cacheExists,  \* per process: the local of save/restore
    call,         \* per process: the running or last finished call
    prev,         \* per process: the call before `call`
    lastUploader  \* the process whose upload stored the newest entry (0: none)

vars == <<remote, file, pc, cacheExists, call, prev, lastUploader>>

NoFile == [exists |-> FALSE, data |-> <<>>]
FileOf(data) == [exists |-> TRUE, data |-> data]

NoCall == [op |-> "none", arg |-> <<>>, status |-> "returned", ret |-> <<>>,
           faults |-> {}, log |-> {}, ops |-> <<>>]
NewCall(op, arg) == [op |-> op, arg |-> arg, status |-> "running", ret |-> <<>>,
                     faults |-> {}, log |-> {}, ops |-> <<>>]

\* ------------------------------------------------------- the backend calls
StartsWith(s, pre) == Len(s) >= Len(pre) /\ SubSeq(s, 1, Len(pre)) = pre

\* getActionsCacheList({key}): the keys of the entries whose key starts with
\* the given one (prefix matching).
getActionsCacheList(store, key) ==
    {k \in DOMAIN store : store[k] # <<>> /\ StartsWith(k, key)}

\* Variant: any listed entry counts (a "starts with" short-circuit).
checkIfCacheExists_prefix(store, cacheKey, listOk) ==
    IF listOk THEN getActionsCacheList(store, cacheKey) # {} ELSE FALSE

\* Variant: a failed listing is taken as "the key exists".
checkIfCacheExists_assume(store, cacheKey, listOk) ==
    IF listOk
    THEN \E k \in getActionsCacheList(store, cacheKey) : k = cacheKey
    ELSE TRUE

\* Variant: the check never finds the key.
checkIfCacheExists_never(store, cacheKey, listOk) == FALSE

\* caches.some(cache => cache['key'] === cacheKey); a failed listing is
\* caught and yields false.
checkIfCacheExists(store, cacheKey, listOk) ==
    IF listOk
    THEN \E k \in getActionsCacheList(store, cacheKey) : k = cacheKey
    ELSE FALSE

\* Variant: the delete request removes nothing.
deleteActionsCacheByKey_keep(store, key) == store

\* deleteActionsCacheByKey: removes every entry under exactly this key.
deleteActionsCacheByKey(store, key) == [store EXCEPT ![key] = <<>>]

\* Variant: every delete error is taken to carry a status.
DeleteOutcome_swallow(store, key, fault) ==
    IF fault # "none" \/ store[key] = <<>> THEN "status" ELSE "ok"

\* What the delete call answers: an injected fault, 404 (a status) when the
\* key holds no entry, success otherwise.
DeleteOutcome(store, key, fault) ==
    IF fault # "none" THEN fault
    ELSE IF store[key] = <<>> THEN "status" ELSE "ok"

\* Variant: the upload stores nothing.
saveCache_nothing(store, key, data) == store

\* cache.saveCache([dir], key): a new entry holding the scratch directory,
\* i.e. the scratch file.  The backend itself does not replace an entry.
saveCache(store, key, data) == [store EXCEPT ![key] = Append(@, data)]

\* cache.restoreCache([dir], key): unpacks the newest entry of the key into
\* the scratch directory; a miss leaves the directory as it is.
restoreCache(store, key, f) ==
    IF store[key] = <<>> THEN f ELSE FileOf(store[key][Len(store[key])])

\* Variant: the download consumes the entry it unpacked.
restoreCacheRemote_consume(store, key) == [store EXCEPT ![key] = <<>>]

\* cache.restoreCache leaves the entries of the backend as they are.
restoreCacheRemote(store, key) == store

\* ------------------------------------------------------ the filesystem
\* fs.writeFileSync(filePath, serializedState)
writeFileSync(data) == FileOf(data)
\* Variant: the size of another, non-empty file is taken.
fileSize_nonzero(f) == 1

\* fs.statSync(filePath).size
fileSize(f) == Len(f.data)
\* Variant: the unlink is skipped.
unlinkSafely_skip(f) == f

\* unlinkSafely: the file is gone afterwards; unlinking an absent file
\* throws and the error is ignored.
unlinkSafely(f) == NoFile
\* fs.readFileSync(filePath, {encoding: 'utf8'})
readFileSync(f) == f.data
\* Variant: the file is taken to be there.
existsSync_always(f) == TRUE

\* fs.existsSync(filePath)
existsSync(f) == f.exists

TypeOK ==
    /\ remote \in [Keys -> Seq(NonEmptyBlobs)]
    /\ \A k \in Keys : Len(remote[k]) <= MaxEntries
    /\ \A p \in Procs : file[p].exists \in BOOLEAN /\ file[p].data \in Blobs
    /\ cacheExists \in [Procs -> BOOLEAN]

Init ==
    /\ remote \in {r \in [Keys -> {<<>>} \cup {<<b>> : b \in NonEmptyBlobs}] :
                     /\ r[LongerKey] \in {<<>>, <<OtherBlob>>}
                     /\ r[ForeignKey] \in {<<>>, <<OtherBlob>>}}
    /\ file = [p \in Procs |-> NoFile]
    /\ pc = [p \in Procs |-> IF p = 1 THEN "idle" ELSE "off"]
    /\ cacheExists = [p \in Procs |-> FALSE]
    /\ call = [p \in Procs |-> NoCall]
    /\ prev = [p \in Procs |-> NoCall]
    /\ lastUploader = 0

\* ------------------------------------------------------------ bookkeeping
Logged(c, tag) == [c EXCEPT !.log = @ \cup {tag}]
Faulted(c, tag) == [c EXCEPT !.faults = @ \cup {tag}]
Invoked(c, op) == [c EXCEPT !.ops = Append(@, op)]
Returned(c, v) == [c EXCEPT !.status = "returned", !.ret = v]
Threw(c) == [c EXCEPT !.status = "threw"]

\* ------------------------------------------------------------------- save
\* save, lines 82-85: mkTempDir and writeFileSync are outside the try.
SaveStart(p, blob, fsFault) ==
    /\ pc[p] = "idle"
    /\ prev' = [prev EXCEPT ![p] = call[p]]
    /\ UNCHANGED <<remote, cacheExists, lastUploader>>
    /\ CASE fsFault = "mkdir" ->
              /\ call' = [call EXCEPT ![p] = Threw(Faulted(NewCall("save", blob), "mkdir"))]
              /\ UNCHANGED <<file, pc>>
         [] fsFault = "write" ->
              /\ call' = [call EXCEPT ![p] = Threw(Faulted(NewCall("save", blob), "write"))]
              /\ \E f \in {file[p], FileOf(<<>>)} : file' = [file EXCEPT ![p] = f]
              /\ UNCHANGED pc
         [] OTHER ->
              /\ call' = [call EXCEPT ![p] = NewCall("save", blob)]
              /\ file' = [file EXCEPT ![p] = writeFileSync(blob)]
              /\ pc' = [pc EXCEPT ![p] = "s_list"]

\* save, lines 101-109: the catch logs a warning, the finally removes the
\* scratch file, and the call returns.
\* Variant: the error leaves save.
SaveCatch_rethrow(c) == Threw(c)

SaveCatch(c) == Returned(Logged(c, "warning_save"), <<>>)

SaveFinally(p, c) ==
    /\ file' = [file EXCEPT ![p] = unlinkSafely(file[p])]
    /\ call' = [call EXCEPT ![p] = c]
    /\ pc' = [pc EXCEPT ![p] = "idle"]

\* save, lines 88-90: await checkIfCacheExists(cache_key).
SaveList(p, listOk) ==
    /\ pc[p] = "s_list"
    /\ LET exists == checkIfCacheExists(remote, cache_key, listOk)
           c1 == Invoked(call[p], "list")
           c2 == IF listOk THEN c1 ELSE Logged(Faulted(c1, "list"), "debug_list")
       IN /\ cacheExists' = [cacheExists EXCEPT ![p] = exists]
          /\ call' = [call EXCEPT ![p] = c2]
          /\ pc' = [pc EXCEPT ![p] = IF exists THEN "s_delete" ELSE "s_stat"]
    /\ UNCHANGED <<remote, file, prev, lastUploader>>

\* save, line 91: await resetCacheWithOctokit(cache_key), lines 50-70.  An
\* error with a status is logged and swallowed; one without is rethrown and
\* lands in the catch of save.
SaveDelete(p, fault) ==
    /\ pc[p] = "s_delete"
    /\ LET outcome == DeleteOutcome(remote, cache_key, fault)
           c1 == Invoked(call[p], "delete")
           c2 == CASE fault = "none" -> c1
                   [] fault = "status" -> Faulted(Faulted(c1, "delete"), "delete_status")
                   [] OTHER -> Faulted(c1, "delete")
       IN CASE outcome = "ok" ->
                 /\ remote' = deleteActionsCacheByKey(remote, cache_key)
                 /\ call' = [call EXCEPT ![p] = c2]
                 /\ pc' = [pc EXCEPT ![p] = "s_stat"]
                 /\ UNCHANGED file
            [] outcome = "status" ->
                 /\ call' = [call EXCEPT ![p] = Logged(c2, "warning_delete")]
                 /\ pc' = [pc EXCEPT ![p] = "s_stat"]
                 /\ UNCHANGED <<remote, file>>
            [] OTHER ->
                 /\ SaveFinally(p, SaveCatch(c2))
                 /\ UNCHANGED remote
    /\ UNCHANGED <<cacheExists, prev, lastUploader>>

\* save, lines 93-98: statSync of the scratch file; an empty file ends the
\* call without an upload.
SaveStat(p, statOk) ==
    /\ pc[p] = "s_stat"
    /\ IF ~statOk
       THEN SaveFinally(p, SaveCatch(Faulted(call[p], "stat")))
       ELSE IF fileSize(file[p]) = 0
       THEN SaveFinally(p, Returned(Logged(call[p], "info_removed"), <<>>))
       ELSE /\ pc' = [pc EXCEPT ![p] = "s_upload"]
            /\ UNCHANGED <<file, call>>
    /\ UNCHANGED <<remote, cacheExists, prev, lastUploader>>

\* save, line 100: await cache.saveCache([path.dirname(filePath)], cache_key).
SaveUpload(p, uploadOk) ==
    /\ pc[p] = "s_upload"
    /\ LET c1 == Invoked(call[p], "upload")
       IN IF uploadOk
          THEN /\ Len(remote[cache_key]) < MaxEntries
               /\ remote' = saveCache(remote, cache_key, file[p].data)
               /\ lastUploader' = p
               /\ SaveFinally(p, Returned(c1, <<>>))
          ELSE /\ SaveFinally(p, SaveCatch(Faulted(c1, "upload")))
               /\ UNCHANGED <<remote, lastUploader>>
    /\ UNCHANGED <<cacheExists, prev>>

\* ---------------------------------------------------------------- restore
\* restore, lines 113-116: mkTempDir is outside the try; unlinkSafely removes
\* a scratch file left by an earlier call.
RestoreStart(p, mkdirOk) ==
    /\ pc[p] = "idle"
    /\ prev' = [prev EXCEPT ![p] = call[p]]
    /\ UNCHANGED <<remote, cacheExists, lastUploader>>
    /\ IF mkdirOk
       THEN /\ call' = [call EXCEPT ![p] = NewCall("restore", <<>>)]
            /\ file' = [file EXCEPT ![p] = unlinkSafely(file[p])]
            /\ pc' = [pc EXCEPT ![p] = "r_list"]
       ELSE /\ call' = [call EXCEPT ![p] = Threw(Faulted(NewCall("restore", <<>>), "mkdir"))]
            /\ UNCHANGED <<file, pc>>

\* restore, lines 119-125: await checkIfCacheExists(cache_key); absent ends
\* the call with ''.
RestoreList(p, listOk) ==
    /\ pc[p] = "r_list"
    /\ LET exists == checkIfCacheExists(remote, cache_key, listOk)
           c1 == Invoked(call[p], "list")
           c2 == IF listOk THEN c1 ELSE Logged(Faulted(c1, "list"), "debug_list")
       IN /\ cacheExists' = [cacheExists EXCEPT ![p] = exists]
          /\ IF exists
             THEN /\ call' = [call EXCEPT ![p] = c2]
                  /\ pc' = [pc EXCEPT ![p] = "r_download"]
             ELSE /\ call' = [call EXCEPT ![p] = Returned(Logged(c2, "info_notfound"), <<>>)]
                  /\ pc' = [pc EXCEPT ![p] = "idle"]
    /\ UNCHANGED <<remote, file, prev, lastUploader>>

\* restore, lines 127-145: await cache.restoreCache, then existsSync and
\* readFileSync.  The download throws ("fail"), returns without having
\* unpacked the file ("nofile"), or unpacks the newest entry.
RestoreDownload(p, download, readOk) ==
    /\ pc[p] = "r_download"
    /\ LET c1 == Invoked(call[p], "download")
           f == IF download = "ok" THEN restoreCache(remote, cache_key, file[p])
                ELSE file[p]
           c2 == IF download = "ok" THEN c1
                 ELSE Faulted(c1, IF download = "fail" THEN "download" ELSE "nofile")
           c3 == IF download = "fail"
                 THEN Returned(Logged(c2, "warning_restore"), <<>>)
                 ELSE IF ~existsSync(f)
                 THEN Returned(Logged(c2, "warning_unpack"), <<>>)
                 ELSE IF ~readOk
                 THEN Returned(Logged(Faulted(c2, "read"), "warning_restore"), <<>>)
                 ELSE Returned(c2, readFileSync(f))
       IN /\ file' = [file EXCEPT ![p] = f]
          /\ call' = [call EXCEPT ![p] = c3]
          /\ pc' = [pc EXCEPT ![p] = "idle"]
          /\ remote' = IF download = "fail" THEN remote
                       ELSE restoreCacheRemote(remote, cache_key)
    /\ UNCHANGED <<cacheExists, prev, lastUploader>>

Next ==
    \E p \in Procs :
        \/ \E blob \in Blobs, fsFault \in {"none", "mkdir", "write"} : SaveStart(p, blob, fsFault)
        \/ \E listOk \in BOOLEAN : SaveList(p, listOk)
        \/ \E fault \in {"none", "status", "nostatus"} : SaveDelete(p, fault)
        \/ \E statOk \in BOOLEAN : SaveStat(p, statOk)
        \/ \E uploadOk \in BOOLEAN : SaveUpload(p, uploadOk)
        \/ \E mkdirOk \in BOOLEAN : RestoreStart(p, mkdirOk)
        \/ \E listOk \in BOOLEAN : RestoreList(p, listOk)
        \/ \E download \in {"ok", "nofile", "fail"}, readOk \in BOOLEAN :
               RestoreDownload(p, download, readOk)

Spec == Init /\ [][Next]_vars

\* A call that has started goes on: every await of a running call settles,
\* with a result or with an error.
Step(p) ==
    \/ \E listOk \in BOOLEAN : SaveList(p, listOk)
    \/ \E fault \in {"none", "status", "nostatus"} : SaveDelete(p, fault)
    \/ \E statOk \in BOOLEAN : SaveStat(p, statOk)
    \/ \E uploadOk \in BOOLEAN : SaveUpload(p, uploadOk)
    \/ \E listOk \in BOOLEAN : RestoreList(p, listOk)
    \/ \E download \in {"ok", "nofile", "fail"}, readOk \in BOOLEAN :
           RestoreDownload(p, download, readOk)

SpecFair == Spec /\ \A p \in Procs : WF_vars(Step(p))

\* Two workflow runs saving under the same key at the same time, one save
\* each.
InitRace ==
    /\ remote \in {r \in [Keys -> {<<>>} \cup {<<b>> : b \in NonEmptyBlobs}] :
                     r[LongerKey] = <<>> /\ r[ForeignKey] = <<>>}
    /\ file = [p \in Procs |-> NoFile]
    /\ pc = [p \in Procs |-> "idle"]
    /\ cacheExists = [p \in Procs |-> FALSE]
    /\ call = [p \in Procs |-> NoCall]
    /\ prev = [p \in Procs |-> NoCall]
    /\ lastUploader = 0

SaveOnce(p, blob, fsFault) == call[p].op = "none" /\ SaveStart(p, blob, fsFault)

NextRace ==
    \E p \in Procs :
        \/ \E blob \in Blobs, fsFault \in {"none", "mkdir", "write"} : SaveOnce(p, blob, fsFault)
        \/ \E listOk \in BOOLEAN : SaveList(p, listOk)
        \/ \E fault \in {"none", "status", "nostatus"} : SaveDelete(p, fault)
        \/ \E statOk \in BOOLEAN : SaveStat(p, statOk)
        \/ \E uploadOk \in BOOLEAN : SaveUpload(p, uploadOk)

SpecRace == InitRace /\ [][NextRace]_vars

\* ================================================================= claims
Finished(p, op) == pc[p] = "idle" /\ call[p].op = op
\* A call in which no backend or filesystem call failed.
Clean(c) == c.faults = {}
BackendFaults == {"list", "delete", "upload"}
Warnings == {"warning_delete", "warning_save"}

\* C1: with every backend and filesystem call succeeding, a restore that
\* follows save(X), X non-empty, returns exactly X, whatever the key held
\* before the save.
C1_RoundTrip ==
    \A p \in Procs :
        (/\ Finished(p, "restore") /\ Clean(call[p])
         /\ prev[p].op = "save" /\ Clean(prev[p]) /\ prev[p].arg # <<>>)
        => call[p].status = "returned" /\ call[p].ret = prev[p].arg

\* The save replaced an entry holding another blob, and the restore
\* returned the new one.
C1_Witness ==
    /\ Finished(1, "restore") /\ Clean(call[1])
    /\ prev[1].op = "save" /\ Clean(prev[1])
    /\ prev[1].ops = <<"list", "delete", "upload">>
    /\ prev[1].arg = <<"a", "a">> /\ call[1].ret = <<"a", "a">>

\* C2: a save("") whose backend calls succeed leaves no entry under the
\* key and uploads nothing, and the restore that follows it returns "".
C2_Clearing ==
    \A p \in Procs :
        /\ (Finished(p, "save") /\ call[p].arg = <<>> /\ Clean(call[p]))
           => /\ remote[cache_key] = <<>>
              /\ \A i \in 1..Len(call[p].ops) : call[p].ops[i] # "upload"
        /\ (/\ Finished(p, "restore") /\ Clean(call[p])
            /\ prev[p].op = "save" /\ prev[p].arg = <<>> /\ Clean(prev[p]))
           => call[p].status = "returned" /\ call[p].ret = <<>>

\* A save("") deleted an existing entry and the restore after it returned "".
C2_Witness ==
    /\ Finished(1, "restore") /\ Clean(call[1]) /\ call[1].ret = <<>>
    /\ prev[1].op = "save" /\ prev[1].arg = <<>> /\ Clean(prev[1])
    /\ prev[1].ops = <<"list", "delete">>
    /\ remote[cache_key] = <<>>

\* C3: the key never holds more than one entry (stated as claimed; the code
\* uploads beside an entry it failed to list or to delete).
C3_AtMostOneEntry == Len(remote[cache_key]) <= 1

\* C4: restore never throws, and returns "" whenever a step failed or the
\* key was absent (stated as claimed; mkTempDir is outside the try).
C4_RestoreNeverThrows ==
    \A p \in Procs :
        Finished(p, "restore")
        => /\ call[p].status = "returned"
           /\ (~Clean(call[p]) \/ ~cacheExists[p]) => call[p].ret = <<>>

C7_RestoreScratchClean ==
    \A p \in Procs :
        (Finished(p, "restore") /\ call[p].status = "returned") => ~file[p].exists

\* C8: two clean saves of the same non-empty X in a row leave exactly one
\* entry under the key, holding X.
C8_Idempotence ==
    \A p \in Procs :
        (/\ Finished(p, "save") /\ Clean(call[p]) /\ call[p].arg # <<>>
         /\ prev[p].op = "save" /\ Clean(prev[p]) /\ prev[p].arg = call[p].arg)
        => remote[cache_key] = <<call[p].arg>>

\* The second of two such saves has deleted the entry of the first.
C8_Witness ==
    /\ Finished(1, "save") /\ Clean(call[1]) /\ call[1].arg = <<"a">>
    /\ prev[1].op = "save" /\ Clean(prev[1]) /\ prev[1].arg = <<"a">>
    /\ call[1].ops = <<"list", "delete", "upload">>
    /\ remote[cache_key] = <<<<"a">>>>

\* C9: a step leads to the delete of save or the download of restore only
\* when an entry under exactly cache_key exists, a successful existence check
\* answers whether it does, and no step changes the entries of another key.
C9_ExactKey ==
    [][\A p \in Procs :
         /\ (pc[p] \in {"s_list", "r_list"} /\ pc'[p] \in {"s_delete", "r_download"})
            => remote[cache_key] # <<>>
         /\ (pc[p] \in {"s_list", "r_list"} /\ pc'[p] # pc[p] /\ Clean(call'[p]))
            => (cacheExists'[p] <=> remote[cache_key] # <<>>)
         /\ \A k \in Keys \ {cache_key} : remote'[k] = remote[k]]_vars

\* A save listed while only the longer key held an entry, and skipped the
\* delete.
C9_Witness ==
    /\ pc[1] = "s_stat" /\ call[1].ops = <<"list">> /\ Clean(call[1])
    /\ ~cacheExists[1]
    /\ remote[LongerKey] # <<>> /\ remote[cache_key] = <<>>

\* C10: when two processes have saved concurrently, both calls returned,
\* and with no failing call beyond the race itself, both blobs non-empty,
\* the key holds the blob of the process whose upload ran last (stated as
\* claimed; two saves that both list before either uploads leave two
\* entries).
C10_LastWriterWins ==
    (\A p \in Procs : Finished(p, "save") /\ call[p].faults \cap {"mkdir", "write"} = {})
    => /\ \A p \in Procs : call[p].status = "returned"
       /\ ((\A p \in Procs : Clean(call[p]) /\ call[p].arg # <<>>) /\ lastUploader # 0)
          => remote[cache_key] = <<call[lastUploader].arg>>

Has(ops, op) == \E i \in 1..Len(ops) : ops[i] = op

\* C11: a restore called while the key holds no entry returns "" without
\* throwing and without calling the download (stated as claimed; the
\* listing, failed or not, ends such a call with "", but a failing
\* mkTempDir throws before it, as in C4).
C11_FirstRun ==
    \A p \in Procs :
        (Finished(p, "restore") /\ remote[cache_key] = <<>>)
        => /\ call[p].status = "returned" /\ call[p].ret = <<>>
           /\ ~Has(call[p].ops, "download")

\* C12: when the entry exists and the download returns without having
\* unpacked the scratch file, restore returns "" with the unpack warning
\* and does not throw.
C12_CorruptionResilience ==
    \A p \in Procs :
        (Finished(p, "restore") /\ "nofile" \in call[p].faults)
        => /\ call[p].status = "returned" /\ call[p].ret = <<>>
           /\ call[p].ops = <<"list", "download">>
           /\ "warning_unpack" \in call[p].log
           /\ remote[cache_key] # <<>>

C12_Witness ==
    /\ Finished(1, "restore") /\ call[1].faults = {"nofile"}
    /\ remote[cache_key] = <<<<"a">>>>
    /\ call[1].ret = <<>> /\ call[1].log = {"warning_unpack"}
    /\ ~file[1].exists

\* C13: a delete failure with a status code is logged as a warning and the
\* save goes on to the size check and, for a non-empty blob, the upload; a
\* delete failure without a status code ends the save at the delete: a
\* warning from the catch of save, no upload, a normal return.
C13_DeleteFailureSplit ==
    \A p \in Procs :
        (call[p].op = "save" /\ "delete" \in call[p].faults)
        => IF "delete_status" \in call[p].faults
           THEN /\ "warning_delete" \in call[p].log
                /\ call[p].status # "threw"
                /\ pc[p] \in {"s_stat", "s_upload", "idle"}
                /\ (pc[p] = "idle" /\ call[p].faults = {"delete", "delete_status"})
                   => IF call[p].arg = <<>>
                      THEN call[p].ops = <<"list", "delete">>
                           /\ "info_removed" \in call[p].log
                      ELSE call[p].ops = <<"list", "delete", "upload">>
                           /\ "warning_save" \notin call[p].log
           ELSE /\ pc[p] = "idle" /\ call[p].status = "returned"
                /\ call[p].ops = <<"list", "delete">>
                /\ call[p].log = {"warning_save"}

\* A save whose delete failed with a status went on and uploaded beside
\* the entry it could not delete.
C13_Witness ==
    /\ Finished(1, "save") /\ call[1].faults = {"delete", "delete_status"}
    /\ call[1].ops = <<"list", "delete", "upload">>
    /\ call[1].log = {"warning_delete"}
    /\ Len(remote[cache_key]) = 2

\* C14: in one save the backend calls are, in this order and at most once
\* each, list, delete (only when the list found the key), upload (only for
\* a non-empty blob when neither the delete nor the size check aborted); in
\* one restore, list and then download (only when found); a running call
\* only moves forward through its steps and reaches its end.
pcRank(s) ==
    CASE s \in {"s_list", "r_list"} -> 1
      [] s \in {"s_delete", "r_download"} -> 2
      [] s = "s_stat" -> 3
      [] s = "s_upload" -> 4
      [] OTHER -> 0

C14_OrderOK(p) ==
    LET c == call[p] IN
    /\ c.op = "save" =>
          /\ c.ops \in {<<>>, <<"list">>, <<"list", "delete">>, <<"list", "upload">>,
                        <<"list", "delete", "upload">>}
          /\ Has(c.ops, "delete") => (cacheExists[p] /\ "list" \notin c.faults)
          /\ (c.ops = <<"list">> /\ pc[p] # "s_delete") => ~cacheExists[p]
          /\ Has(c.ops, "upload") =>
                /\ c.arg # <<>>
                /\ "stat" \notin c.faults
                /\ "delete" \in c.faults => "delete_status" \in c.faults
    /\ c.op = "restore" =>
          /\ c.ops \in {<<>>, <<"list">>, <<"list", "download">>}
          /\ Has(c.ops, "download") => (cacheExists[p] /\ "list" \notin c.faults)
    /\ pc[p] = "s_list" => c.ops = <<>>
    /\ pc[p] = "r_list" => c.ops = <<>>
    /\ pc[p] = "s_delete" => c.ops = <<"list">>
    /\ pc[p] = "r_download" => c.ops = <<"list">>
    /\ pc[p] = "s_upload" => ~Has(c.ops, "upload")

C14_StepOrder ==
    /\ [](\A p \in Procs : C14_OrderOK(p))
    /\ [][\A p \in Procs :
            pc'[p] # pc[p] => (pc'[p] = "idle" \/ pcRank(pc'[p]) > pcRank(pc[p]))]_vars
    /\ \A p \in Procs : (pc[p] \notin {"idle", "off"}) ~> (pc[p] = "idle")

\* A restore that listed and downloaded, after a save that listed, deleted
\* and uploaded.
C14_Witness ==
    /\ Finished(1, "restore") /\ call[1].ops = <<"list", "download">>
    /\ call[1].status = "returned"
    /\ prev[1].op = "save" /\ prev[1].ops = <<"list", "delete", "upload">>
    /\ prev[1].status = "returned"

Newest(entries) == entries[Len(entries)]

C16_NonAtomicSave ==
    \A p \in Procs :
        /\ (/\ Finished(p, "save") /\ call[p].faults = {"upload"}
            /\ call[p].ops = <<"list", "delete", "upload">>)
           => /\ call[p].status = "returned"
              /\ "warning_save" \in call[p].log
              /\ remote[cache_key] = <<>>
        /\ (/\ Finished(p, "restore") /\ call[p].status = "returned"
            /\ prev[p].op = "save" /\ prev[p].faults = {"upload"}
            /\ prev[p].ops = <<"list", "delete", "upload">>)
           => call[p].ret = <<>>

\* save("aa") lost the old entry without storing the new one, and the
\* restore after it found nothing.
C16_Witness ==
    /\ Finished(1, "restore") /\ Clean(call[1]) /\ call[1].ret = <<>>
    /\ call[1].ops = <<"list">>
    /\ prev[1].op = "save" /\ prev[1].arg = <<"a", "a">>
    /\ prev[1].faults = {"upload"}
    /\ prev[1].ops = <<"list", "delete", "upload">>
    /\ remote[cache_key] = <<>>

\* C17: a failed listing counts as "key absent".  The step that fails to
\* list logs at debug level, yields false and changes no entry; the save
\* skips the delete and goes on, uploading a non-empty blob and leaving the
\* entries as they are for an empty one; the restore returns "" without a
\* download, also when an entry exists.
C17_FailedListingIsAbsent ==
    [][\A p \in Procs :
         /\ (pc[p] \in {"s_list", "r_list"} /\ "list" \in call'[p].faults)
            => /\ ~cacheExists'[p]
               /\ "debug_list" \in call'[p].log
               /\ call'[p].status # "threw"
               /\ remote' = remote
               /\ pc[p] = "s_list" => pc'[p] = "s_stat"
               /\ pc[p] = "r_list"
                  => /\ pc'[p] = "idle" /\ call'[p].status = "returned"
                     /\ call'[p].ret = <<>> /\ call'[p].ops = <<"list">>
         /\ (/\ call'[p].op = "save" /\ call'[p].faults = {"list"}
             /\ call[p] # call'[p] /\ pc'[p] = "idle")
            => /\ call'[p].status = "returned"
               /\ IF call'[p].arg = <<>>
                  THEN call'[p].ops = <<"list">> /\ remote' = remote
                  ELSE /\ call'[p].ops = <<"list", "upload">>
                       /\ remote' = saveCache(remote, cache_key, call'[p].arg)]_vars

\* A restore whose listing failed returned "" although the key holds an
\* entry.
C17_Witness ==
    /\ Finished(1, "restore") /\ call[1].faults = {"list"}
    /\ call[1].ops = <<"list">> /\ call[1].ret = <<>>
    /\ remote[cache_key] = <<<<"a">>>>

\* C18: no step of a restore changes an entry of the backend, a restore
\* calls neither delete nor upload, and of two restores in a row whose calls
\* all succeed the second returns what the first returned.
C18_RestoreReadOnly ==
    [][\A p \in Procs :
         /\ (call'[p].op = "restore" /\ call'[p] # call[p])
            => /\ remote' = remote
               /\ ~Has(call'[p].ops, "delete") /\ ~Has(call'[p].ops, "upload")
         /\ (/\ call'[p].op = "restore" /\ pc'[p] = "idle" /\ Clean(call'[p])
             /\ prev'[p].op = "restore" /\ Clean(prev'[p]))
            => call'[p].ret = prev'[p].ret]_vars

\* Two restores in a row returned the same stored blob.
C18_Witness ==
    /\ Finished(1, "restore") /\ Clean(call[1]) /\ call[1].ret = <<"a", "a">>
    /\ prev[1].op = "restore" /\ Clean(prev[1]) /\ prev[1].ret = <<"a", "a">>
    /\ remote[cache_key] = <<<<"a", "a">>>>
====
